---- MODULE Spec2Model ----
(***************************************************************************)
(* Model of the food-analyzer backend (src/app.py): a Flask application    *)
(* with two routes, GET /check and POST /api/execute, over one             *)
(* process-wide handle `model` to the external generation capability.      *)
(*                                                                         *)
(* Python strings that the code inspects (the query, the generated text)   *)
(* are sequences of characters; messages built with f-strings are          *)
(* sequences whose first elements are the literal parts of the f-string.   *)
(***************************************************************************)
EXTENDS Integers, Sequences, FiniteSets, TLC

VARIABLES API_KEY, MODEL_TO_USE, model, stdout, calls, nreq, req, call, resp

vars == <<API_KEY, MODEL_TO_USE, model, stdout, calls, nreq, req, call, resp>>

---------------------------------------------------------------------------
(* Bounds *)

MaxLen == 2

MaxRequests == 2

---------------------------------------------------------------------------
(* Python values *)

None == "<None>"

Chars == {" ", "a"}

Whitespace == {" "}

Strings == UNION {[1..n -> Chars] : n \in 0..MaxLen}

(* str.strip(): leading and trailing whitespace removed *)
RECURSIVE LStrip(_)
LStrip(s) ==
    IF s = <<>> THEN <<>>
    ELSE IF Head(s) \in Whitespace THEN LStrip(Tail(s)) ELSE s

RECURSIVE RStrip(_)
RStrip(s) ==
    IF s = <<>> THEN <<>>
    ELSE IF s[Len(s)] \in Whitespace THEN RStrip(SubSeq(s, 1, Len(s) - 1)) ELSE s

Strip(s) == RStrip(LStrip(s))

(* JSON values as Python objects.  `len` is the number of items of an     *)
(* array or of keys of an object; an object may carry a "query" item.     *)
JVal(t, s, n, b, l) == [type |-> t, s |-> s, n |-> n, b |-> b, len |-> l]

JNull == JVal("null", <<>>, 0, FALSE, 0)

JStr(s) == JVal("string", s, 0, FALSE, 0)

JNum(n) == JVal("number", <<>>, n, FALSE, 0)

JBool(b) == JVal("boolean", <<>>, 0, b, 0)

JArr(l) == JVal("array", <<>>, 0, FALSE, l)

JObjVal(l) == JVal("object", <<>>, 0, FALSE, l)

(* the values a "query" item can hold *)
QueryValues ==
    {JStr(s) : s \in Strings}
        \cup {JNull, JNum(0), JNum(5), JBool(TRUE), JArr(1), JObjVal(1)}

(* a request payload: a JSON value, with the "query" item of an object *)
Payload(v, hasQuery, q) == [v |-> v, hasQuery |-> hasQuery, query |-> q]

Scalar(v) == Payload(v, FALSE, JNull)

Payloads ==
    {Payload(JObjVal(1), TRUE, q) : q \in QueryValues}
        \cup {Payload(JObjVal(0), FALSE, JNull), Payload(JObjVal(1), FALSE, JNull)}
        \cup {Scalar(JNull), Scalar(JStr(<<>>)), Scalar(JStr(<<"a">>)),
              Scalar(JNum(0)), Scalar(JNum(5)), Scalar(JBool(FALSE)),
              Scalar(JBool(TRUE)), Scalar(JArr(0)), Scalar(JArr(1))}

(* a request body: absent, not parseable as JSON, or a JSON document *)
Body(parse, p) == [parse |-> parse, payload |-> p]

Bodies ==
    {Body("absent", Scalar(JNull)), Body("malformed", Scalar(JNull))}
        \cup {Body("ok", p) : p \in Payloads}

(* Python truth value of a JSON value: `not x` is ~Truthy(x) *)
Truthy(v) ==
    CASE v.type = "null" -> FALSE
      [] v.type = "string" -> v.s # <<>>
      [] v.type = "number" -> v.n # 0
      [] v.type = "boolean" -> v.b
      [] OTHER -> v.len > 0

---------------------------------------------------------------------------
(* HTTP responses *)

(* what the client receives: a jsonify() body with an HTTP code, or the   *)
(* server's fault page when an exception leaves the view function.        *)
(* `keys` is the set of members of the JSON body.                         *)
Response(kind, code, keys, success, result, error, status, message, mdl) ==
    [kind |-> kind, code |-> code, keys |-> keys, success |-> success,
     result |-> result, error |-> error, status |-> status,
     message |-> message, model |-> mdl]

NoResponse == Response("none", 0, {}, FALSE, <<>>, <<>>, "", <<>>, "")

ErrorResponse(code, msg) ==
    Response("json", code, {"error"}, FALSE, <<>>, msg, "", <<>>, "")

SuccessResponse(text) ==
    Response("json", 200, {"success", "result"}, TRUE, text, <<>>, "", <<>>, "")

CheckResponse(code, status, message, mdl) ==
    Response("json", code, {"status", "message", "model"}, FALSE, <<>>, <<>>,
             status, message, mdl)

(* an exception that no handler of the view function catches *)
Unhandled == Response("unhandled", 500, {}, FALSE, <<>>, <<>>, "", <<>>, "")

---------------------------------------------------------------------------
(* Message literals *)

NotInitializedError == <<"AI service not initialized. Check API key configuration.">>

InvalidPayloadError == <<"Invalid or missing JSON payload.">>

MissingQueryError == <<"Missing or empty \"query\" field in the request.">>

InternalErrorPrefix == <<"An unexpected internal server error occurred: ">>

InternalErrorLog == <<"Internal Server Error: ">>

BlockedPrefix == <<"The response was blocked by the API. Feedback: ">>

BlockedLog == <<"Response was blocked by API. Feedback: ">>

ModelMissingError == <<"AI model failed to initialize due to missing or invalid API key.">>

FatalLog == <<"FATAL: GOOGLE_API_KEY environment variable not found. The application cannot start.">>

ConfigureErrorLog == <<"ERROR: Failed to configure Google Generative AI Client: ">>

RunningMessage == <<"backend is running">>

DegradedMessage == <<"backend is running, but AI model failed to initialize.">>

system_prompt == "You are a food and nutrition analysis expert. ..."

---------------------------------------------------------------------------
(* The external generation capability *)

(* str(response.prompt_feedback) of a response without parts *)
Feedbacks == {<<"block_reason: SAFETY">>, <<"block_reason: OTHER">>}

(* str(e) of the errors the external call can raise *)
ExcMessages == {<<"timed out">>, BlockedPrefix \o <<"block_reason: SAFETY">>}

(* response.text of a response with content parts *)
Texts == {<<>>, <<"a">>, <<" ", "a", " ">>}

ValueErrorMessage == <<"response.text requires a single text part">>

Outcome(kind, parts, textOk, text, feedback, exc) ==
    [kind |-> kind, parts |-> parts, textOk |-> textOk, text |-> text,
     feedback |-> feedback, exc |-> exc]

NotCalled == Outcome("notcalled", 0, FALSE, <<>>, <<>>, <<>>)

(* what model.generate_content(...) can do: raise, return a response with *)
(* content parts whose .text is T, return a response whose parts hold no  *)
(* text (reading .text raises), or return a response with no parts.       *)
Outcomes ==
    {Outcome("raised", 0, FALSE, <<>>, <<>>, e) : e \in ExcMessages}
        \cup {Outcome("returned", 1, TRUE, t, <<>>, <<>>) : t \in Texts}
        \cup {Outcome("returned", 1, FALSE, <<>>, <<>>, ValueErrorMessage)}
        \cup {Outcome("returned", 0, FALSE, <<>>, f, <<>>) : f \in Feedbacks}

(* one model.generate_content(...) call: its arguments and what it did *)
Call(query, o) ==
    [contents |-> query, system_instruction |-> system_prompt,
     tools |-> "google_search", outcome |-> o]

(* a request served without an external call *)
NoCall ==
    [contents |-> <<>>, system_instruction |-> "", tools |-> "",
     outcome |-> NotCalled]

---------------------------------------------------------------------------
(* Core logic *)

Returned(text, printed, called) ==
    [raised |-> FALSE, error |-> <<>>, value |-> text, printed |-> printed,
     called |-> called]

Raised(msg, printed, called) ==
    [raised |-> TRUE, error |-> msg, value |-> <<>>, printed |-> printed,
     called |-> called]

(* execute_food_analyzer as it would be if it trimmed the generated text *)
execute_food_analyzer_strips(m, query, o) ==
    IF m = None THEN Raised(ModelMissingError, <<>>, <<>>)
    ELSE IF o.kind = "raised" THEN Raised(o.exc, <<>>, <<Call(query, o)>>)
    ELSE IF o.parts = 0
        THEN Raised(BlockedPrefix \o o.feedback,
                    <<BlockedLog \o o.feedback>>, <<Call(query, o)>>)
    ELSE IF ~o.textOk THEN Raised(o.exc, <<>>, <<Call(query, o)>>)
    ELSE Returned(Strip(o.text), <<>>, <<Call(query, o)>>)

(* execute_food_analyzer as it would be without the response.parts check *)
execute_food_analyzer_unchecked(m, query, o) ==
    IF m = None THEN Raised(ModelMissingError, <<>>, <<>>)
    ELSE IF o.kind = "raised" THEN Raised(o.exc, <<>>, <<Call(query, o)>>)
    ELSE IF o.parts > 0 /\ ~o.textOk THEN Raised(o.exc, <<>>, <<Call(query, o)>>)
    ELSE Returned(o.text, <<>>, <<Call(query, o)>>)

(* execute_food_analyzer(query) with the process-wide handle m, where o   *)
(* is what the external call does.  Yields the returned text or the       *)
(* str() of the exception raised, the lines printed, the calls made.      *)
execute_food_analyzer(m, query, o) ==
    IF m = None THEN Raised(ModelMissingError, <<>>, <<>>)
    ELSE IF o.kind = "raised" THEN Raised(o.exc, <<>>, <<Call(query, o)>>)
    ELSE IF o.parts = 0
        THEN Raised(BlockedPrefix \o o.feedback,
                    <<BlockedLog \o o.feedback>>, <<Call(query, o)>>)
    ELSE IF ~o.textOk THEN Raised(o.exc, <<>>, <<Call(query, o)>>)
    ELSE Returned(o.text, <<>>, <<Call(query, o)>>)

(* request.get_json(silent=True): None unless the body is a JSON document *)
get_json(body) == IF body.parse = "ok" THEN body.payload ELSE Scalar(JNull)

(* data.get('query') of a dict *)
get_query(data) == IF data.hasQuery THEN data.query ELSE JNull

Handled(r, printed, called) ==
    [resp |-> r, printed |-> printed, called |-> called]

(* the view function of GET /check *)
check(m, mdl) ==
    IF m = None
        THEN CheckResponse(503, "error", DegradedMessage, mdl)
        ELSE CheckResponse(200, "ok", RunningMessage, mdl)

(* execute with its parts switchable: the handle guard, the print of the *)
(* except clause, the str(e) in the error message                        *)
execute_variant(m, body, o, guarded, logs, detailed) ==
    IF guarded /\ m = None
        THEN Handled(ErrorResponse(503, NotInitializedError), <<>>, <<>>)
    ELSE LET data == get_json(body) IN
    IF ~Truthy(data.v)
        THEN Handled(ErrorResponse(400, InvalidPayloadError), <<>>, <<>>)
    ELSE IF data.v.type # "object"
        THEN Handled(Unhandled, <<>>, <<>>)
    ELSE LET query == get_query(data) IN
    IF ~Truthy(query) \/ query.type # "string" \/ Strip(query.s) = <<>>
        THEN Handled(ErrorResponse(400, MissingQueryError), <<>>, <<>>)
    ELSE LET r == execute_food_analyzer(m, query.s, o) IN
    IF r.raised
        THEN Handled(ErrorResponse(500, InternalErrorPrefix
                                            \o (IF detailed THEN r.error ELSE <<>>)),
                     r.printed \o (IF logs THEN <<InternalErrorLog \o r.error>>
                                           ELSE <<>>),
                     r.called)
        ELSE Handled(SuccessResponse(r.value), r.printed, r.called)

(* execute as it would be without the `if not model` guard *)
execute_unguarded(m, body, o) == execute_variant(m, body, o, FALSE, TRUE, TRUE)

(* execute as it would be without the print of the except clause *)
execute_silent(m, body, o) == execute_variant(m, body, o, TRUE, FALSE, TRUE)

(* execute as it would be with a fixed message in the except clause *)
execute_generic(m, body, o) == execute_variant(m, body, o, TRUE, TRUE, FALSE)

(* the view function of POST /api/execute *)
execute(m, body, o) ==
    IF m = None THEN Handled(ErrorResponse(503, NotInitializedError), <<>>, <<>>)
    ELSE LET data == get_json(body) IN
    IF ~Truthy(data.v)
        THEN Handled(ErrorResponse(400, InvalidPayloadError), <<>>, <<>>)
    ELSE IF data.v.type # "object"
        THEN Handled(Unhandled, <<>>, <<>>)
    ELSE LET query == get_query(data) IN
    IF ~Truthy(query) \/ query.type # "string" \/ Strip(query.s) = <<>>
        THEN Handled(ErrorResponse(400, MissingQueryError), <<>>, <<>>)
    ELSE LET r == execute_food_analyzer(m, query.s, o) IN
    IF r.raised
        THEN Handled(ErrorResponse(500, InternalErrorPrefix \o r.error),
                     r.printed \o <<InternalErrorLog \o r.error>>, r.called)
        ELSE Handled(SuccessResponse(r.value), r.printed, r.called)

---------------------------------------------------------------------------
(* The process: the module globals, the lines printed (stdout), what the *)
(* external calls made so far did (calls), the number of requests served *)
(* (nreq), and the last request with its external call and its response. *)

ApiKeys == {None, "", "key"}

Request(method, route, body) == [method |-> method, route |-> route, body |-> body]

NoBody == Body("absent", Scalar(JNull))

(* module initialization: the handle is built once, from the credential *)
Init ==
    /\ API_KEY \in ApiKeys
    /\ MODEL_TO_USE = "gemini-2.5-flash"
    /\ \E configured \in BOOLEAN :
        LET hasKey == API_KEY # None /\ API_KEY # "" IN
        /\ model = IF hasKey /\ configured THEN "GenerativeModel" ELSE None
        /\ stdout = (IF hasKey THEN <<>> ELSE <<FatalLog>>)
                        \o (IF hasKey /\ ~configured
                                THEN <<ConfigureErrorLog \o <<"configure failed">>>>
                                ELSE <<>>)
    /\ calls = <<>>
    /\ nreq = 0
    /\ req = Request("", "", NoBody)
    /\ call = NoCall
    /\ resp = NoResponse

(* a request handler that drops the handle when the request fails *)
PostExecuteDropsHandle(body, o) ==
    /\ nreq < MaxRequests
    /\ LET h == execute(model, body, o) IN
        /\ resp' = h.resp
        /\ stdout' = stdout \o h.printed
        /\ calls' = calls \o [i \in 1..Len(h.called) |-> h.called[i].outcome]
        /\ call' = IF h.called = <<>> THEN NoCall ELSE h.called[1]
        /\ model' = IF h.resp.code = 500 THEN None ELSE model
    /\ req' = Request("POST", "/api/execute", body)
    /\ nreq' = nreq + 1
    /\ UNCHANGED <<API_KEY, MODEL_TO_USE>>

PostExecute(body, o) ==
    /\ nreq < MaxRequests
    /\ LET h == execute(model, body, o) IN
        /\ resp' = h.resp
        /\ stdout' = stdout \o h.printed
        /\ calls' = calls \o [i \in 1..Len(h.called) |-> h.called[i].outcome]
        /\ call' = IF h.called = <<>> THEN NoCall ELSE h.called[1]
    /\ req' = Request("POST", "/api/execute", body)
    /\ nreq' = nreq + 1
    /\ UNCHANGED <<API_KEY, MODEL_TO_USE, model>>

GetCheck ==
    /\ nreq < MaxRequests
    /\ resp' = check(model, MODEL_TO_USE)
    /\ req' = Request("GET", "/check", NoBody)
    /\ call' = NoCall
    /\ nreq' = nreq + 1
    /\ UNCHANGED <<API_KEY, MODEL_TO_USE, model, stdout, calls>>

Next ==
    \/ \E body \in Bodies, o \in Outcomes : PostExecute(body, o)
    \/ GetCheck

Spec == Init /\ [][Next]_vars

---------------------------------------------------------------------------
(* Vocabulary of the properties *)

IsExecute == req.route = "/api/execute"

(* what the external call of the last request did *)
ext == call.outcome

IsCheck == req.route = "/check"

Initialized == model # None

(* the body is a JSON object whose "query" is a string, non-empty trimmed *)
UsableQuery(body) ==
    /\ body.parse = "ok"
    /\ body.payload.v.type = "object"
    /\ body.payload.hasQuery
    /\ body.payload.query.type = "string"
    /\ Strip(body.payload.query.s) # <<>>

IsObject(body) == body.parse = "ok" /\ body.payload.v.type = "object"

ReturnedText(o) == o.kind = "returned" /\ o.parts > 0 /\ o.textOk

Blocked(o) == o.kind = "returned" /\ o.parts = 0

Contains(msg, part) ==
    \E i \in 1..(Len(msg) - Len(part) + 1) :
        SubSeq(msg, i, i + Len(part) - 1) = part

(* the step is one POST /api/execute request *)
ExecuteStep == nreq' = nreq + 1 /\ req'.route = "/api/execute"

---------------------------------------------------------------------------
(* C1: with the capability initialized, a payload whose query is a string *)
(* non-empty after trimming, and an external call that returns content    *)
(* parts with text T, POST /api/execute answers 200 with                  *)
(* {success: true, result: T}, T exactly as the capability returned it.   *)
C1_SuccessVerbatim ==
    (IsExecute /\ Initialized /\ UsableQuery(req.body) /\ ReturnedText(ext))
        => resp = SuccessResponse(ext.text)

C1_Witness ==
    /\ IsExecute /\ Initialized /\ UsableQuery(req.body) /\ ReturnedText(ext)
    /\ req.body.payload.query.s = <<" ", "a">>
    /\ ext.text = <<" ", "a", " ">>
    /\ resp.code = 200 /\ resp.result = <<" ", "a", " ">>

(* C2: every payload without a usable query (no query item, or a query    *)
(* that is empty, whitespace-only or not a string) gets HTTP 400 and the  *)
(* external capability is not invoked during the request.                 *)
C2_BadQueryIsClientError ==
    (IsExecute /\ Initialized /\ req.body.parse = "ok" /\ ~UsableQuery(req.body))
        => /\ resp.kind = "json" /\ resp.code = 400
           /\ call = NoCall

(* C3: with the handle None, every POST /api/execute answers 503 with the *)
(* not-initialized error and no external call is ever made, GET /check    *)
(* answers 503 "error"; GET /check answers 200 "ok" exactly when the      *)
(* capability is initialized.                                             *)
C3_Unavailable ==
    /\ ~Initialized =>
        /\ calls = <<>>
        /\ IsExecute => resp = ErrorResponse(503, NotInitializedError) /\ call = NoCall
        /\ IsCheck => resp.code = 503 /\ resp.status = "error"
    /\ IsCheck => ((resp.code = 200 /\ resp.status = "ok") <=> Initialized)

C3_Witness ==
    /\ ~Initialized /\ nreq >= 2
    /\ IsExecute /\ UsableQuery(req.body)
    /\ resp.code = 503 /\ resp.error = NotInitializedError

(* C4: a response with no content parts, returned without an exception,   *)
(* is answered as an error: HTTP 500, no success or result member, and an *)
(* error message that includes the provider's feedback.                   *)
C4_BlockedIsError ==
    (IsExecute /\ Blocked(ext)) =>
        /\ resp.kind = "json" /\ resp.code = 500
        /\ resp.keys = {"error"} /\ ~resp.success
        /\ Contains(resp.error, ext.feedback)

C4_Witness ==
    /\ IsExecute /\ Blocked(ext) /\ ext.feedback = <<"block_reason: SAFETY">>
    /\ resp.code = 500

(* C5: a request whose external call raises is answered 500 with an error *)
(* string, no request changes the process-wide handle or the model        *)
(* identifier, and a valid request that follows a failed one and for      *)
(* which the capability returns text is still answered with Success.      *)
C5_FailureLeavesProcessServing ==
    [][/\ model' = model
       /\ MODEL_TO_USE' = MODEL_TO_USE
       /\ (ExecuteStep /\ ext'.kind = "raised") =>
            /\ resp'.kind = "json" /\ resp'.code = 500
            /\ resp'.keys = {"error"} /\ resp'.error # <<>>
       /\ (ext.kind = "raised" /\ ExecuteStep /\ UsableQuery(req'.body)
              /\ ReturnedText(ext'))
            => resp' = SuccessResponse(ext'.text)]_vars

C5_Witness ==
    /\ Len(calls) >= 2
    /\ calls[Len(calls) - 1].kind = "raised"
    /\ IsExecute /\ ReturnedText(ext) /\ resp.code = 200 /\ resp.success
    /\ Initialized

(* C6: with the capability initialized, every request body (absent,       *)
(* malformed, or JSON of any type) is answered by one of the JSON         *)
(* responses 200/400/500 and no exception leaves the handler; a payload   *)
(* that is not a structured object gets 400 "Invalid or missing JSON      *)
(* payload."                                                              *)
C6_NoUnhandledFault ==
    (IsExecute /\ Initialized) =>
        /\ resp.kind = "json" /\ resp.code \in {200, 400, 500}
        /\ ~IsObject(req.body) => resp = ErrorResponse(400, InvalidPayloadError)

(* C7: a payload that parses as an object but lacks a usable query, the   *)
(* empty object {} included, gets 400 with the missing-query message and  *)
(* not the invalid-payload message.                                       *)
C7_EmptyObjectMissingQuery ==
    (IsExecute /\ Initialized /\ IsObject(req.body) /\ ~UsableQuery(req.body))
        => resp = ErrorResponse(400, MissingQueryError)

(* C8: every response of POST /api/execute carries either a result (with  *)
(* success true and HTTP 200) or an error string (with HTTP 400, 500 or   *)
(* 503), never both and never neither.                                    *)
C8_ExactlyOneOfResultOrError ==
    IsExecute =>
        \/ /\ "result" \in resp.keys /\ "error" \notin resp.keys
           /\ resp.success /\ resp.code = 200
        \/ /\ "error" \in resp.keys /\ "result" \notin resp.keys
           /\ resp.error # <<>> /\ resp.code \in {400, 500, 503}

(* C9, as stated: every failure response of POST /api/execute (503, 400,  *)
(* 500) is preceded by a log line written during the request, and a       *)
(* successful call writes none.                                           *)
C9_EveryFailureLogs ==
    [][ExecuteStep =>
        /\ (resp'.kind = "json" /\ resp'.code \in {400, 500, 503})
            => Len(stdout') > Len(stdout)
        /\ resp'.code = 200 => stdout' = stdout]_vars

(* C9, amended: the failures that follow the external call (blocked       *)
(* response, raised error: the JSON 500 answers) write at least one log   *)
(* line during the request, the last one being the "Internal Server       *)
(* Error" line; the 503 and 400 answers and a successful call write none. *)
C9_OnlyUpstreamFailuresLog ==
    [][ExecuteStep =>
        /\ (resp'.kind = "json" /\ resp'.code = 500) =>
            /\ Len(stdout') > Len(stdout)
            /\ SubSeq(stdout', 1, Len(stdout)) = stdout
            /\ SubSeq(stdout'[Len(stdout')], 1, 1) = InternalErrorLog
        /\ resp'.code \in {200, 400, 503} => stdout' = stdout]_vars

C9_Witness ==
    /\ IsExecute /\ Blocked(ext) /\ resp.code = 500
    /\ Len(stdout) >= 2
    /\ stdout[Len(stdout) - 1] = BlockedLog \o ext.feedback
    /\ SubSeq(stdout[Len(stdout)], 1, 1) = InternalErrorLog

(* C10, as stated: the answer to a blocked response and the answer to a   *)
(* raised error differ in the HTTP status or in the members of the body,  *)
(* whatever the provider's feedback or exception text.                    *)
C10_BlockedAndRaisedDiffer ==
    [][(IsExecute /\ Blocked(ext) /\ ExecuteStep /\ ext'.kind = "raised")
        => <<resp.code, resp.keys>> # <<resp'.code, resp'.keys>>]_vars

(* C10, amended: both outcomes are answered 500 with a body whose only    *)
(* member is error; they differ only in the text of that string, which is *)
(* the internal-error prefix followed by the blocked notice and the       *)
(* feedback for a blocked response, and by str(e) for a raised error.     *)
C10_SameEnvelopeDifferentText ==
    /\ (IsExecute /\ Blocked(ext)) =>
        resp = ErrorResponse(500, InternalErrorPrefix \o BlockedPrefix \o ext.feedback)
    /\ (IsExecute /\ ext.kind = "raised") =>
        resp = ErrorResponse(500, InternalErrorPrefix \o ext.exc)

C10_Witness ==
    /\ Len(calls) >= 2
    /\ Blocked(calls[Len(calls) - 1])
    /\ IsExecute /\ ext.kind = "raised"
    /\ ext.exc = BlockedPrefix \o calls[Len(calls) - 1].feedback
    /\ resp.code = 500

====
